---- MODULE Spec2Model ----
(***************************************************************************)
(* Resumable batch scraping (src/batch_scrape.py): the Progress Store      *)
(* (progress_state.json), the Master Store (all_places_reviews.json/.csv), *)
(* the Chunk Runner (scrape_chunk) and the Run Driver (__main__), as one   *)
(* state machine.  A run is one process; it is split at every point where  *)
(* the persistent state changes, so that a process kill between any two    *)
(* file-system effects is a behaviour of the model.                        *)
(*                                                                         *)
(* PlaceScraper is the capability scrape_chunk awaits inside its try       *)
(* block: it either returns a PlaceReviews value or raises.                *)
(***************************************************************************)
EXTENDS Integers, Sequences, FiniteSets, TLC

(* ---------------------------------------------------------------- bounds *)
\* Number of entries of the (already deduplicated) LinkSet.
NumLinks == 3
\* Largest --chunk_size tried; the smallest is -1 (argparse type=int takes any).
MaxChunk == 2
\* Number of runs that enter scrape_chunk in one behaviour.
MaxRuns == 1

(* --------------------------------------------------------------- helpers *)
Min(a, b) == IF a <= b THEN a ELSE b
Max(a, b) == IF a >= b THEN a ELSE b

\* Python's normalisation of one slice bound k for a sequence of length n.
PyIndex(k, n) == IF k < 0 THEN Max(k + n, 0) ELSE Min(k, n)

\* Python's s[a:b] (0-based, negative bounds count from the end).
PySlice(s, a, b) ==
  LET lo == PyIndex(a, Len(s))
      hi == PyIndex(b, Len(s))
  IN  IF lo < hi THEN SubSeq(s, lo + 1, hi) ELSE << >>

\* Python's a // b for b # 0 (floor division, also for a negative divisor).
PyFloorDiv(a, b) == IF b > 0 THEN a \div b ELSE (0 - a) \div (0 - b)

\* The URLs the input artifact may hold.
UrlPool == << "a", "b", "c", "d", "e" >>

\* The LinkSet load_links returns: unique URLs, in the input's order.
links == SubSeq(UrlPool, 1, NumLinks)

(* ------------------------------------------------- PlaceScraper's results *)
Rev1 == [user_name |-> "u1", rating |-> 5, timestamp |-> "t1", text_review |-> "x"]
ReviewLists == { << >>, << Rev1 >> }

\* What scrape_google_maps_reviews may return for a link.
ScrapeResults(link) ==
  { [place_url |-> link, place_name |-> "n", place_location |-> "loc", reviews |-> rs]
      : rs \in ReviewLists }

\* The outcome logged for a link PlaceScraper raised on: nothing scraped.
NoResult(link) ==
  [place_url |-> link, place_name |-> "", place_location |-> "", reviews |-> << >>]

\* The record scrape_chunk appends to chunk_results for a result.
ResultRecord(result) ==
  [place_url |-> result.place_url, place_name |-> result.place_name,
   place_location |-> result.place_location, reviews |-> result.reviews]

\* The rows scrape_chunk appends to chunk_rows for a result: one per review.
ResultRows(result) ==
  [k \in 1..Len(result.reviews) |->
     [place_url |-> result.place_url, place_name |-> result.place_name,
      place_location |-> result.place_location,
      user_name |-> result.reviews[k].user_name,
      rating |-> result.reviews[k].rating,
      timestamp |-> result.reviews[k].timestamp,
      text_review |-> result.reviews[k].text_review]]

(* ------------------------------------------------------------ file states *)
\* A file is absent, holds a complete document ("json"/"csv"), or was opened
\* for writing (truncated) by a writer that never finished ("partial").
AbsentFile == [kind |-> "absent", data |-> << >>]
PartialFile == [kind |-> "partial", data |-> << >>]
StateDoc(n) == [kind |-> "json", data |-> << n >>]
JsonDoc(items) == [kind |-> "json", data |-> items]

\* The missing value of a frame (NaN).
NaN == "<NaN>"
\* to_csv writes a missing value as an empty field (na_rep = "").
ToCsvField(x) == IF x = NaN THEN "" ELSE x
\* read_csv reads an empty field as a missing value (default na_values).
ReadCsvField(x) == IF x = "" THEN NaN ELSE x
\* df.to_csv(MASTER_CSV, index=False): the text columns, field by field.
to_csv(rows) ==
  [k \in 1..Len(rows) |->
     [rows[k] EXCEPT !.place_url = ToCsvField(@), !.place_name = ToCsvField(@),
                     !.place_location = ToCsvField(@), !.user_name = ToCsvField(@),
                     !.timestamp = ToCsvField(@), !.text_review = ToCsvField(@)]]
\* pd.read_csv(MASTER_CSV): the text columns, field by field.
read_csv(data) ==
  [k \in 1..Len(data) |->
     [data[k] EXCEPT !.place_url = ReadCsvField(@), !.place_name = ReadCsvField(@),
                     !.place_location = ReadCsvField(@), !.user_name = ReadCsvField(@),
                     !.timestamp = ReadCsvField(@), !.text_review = ReadCsvField(@)]]

CsvDoc(rows) == [kind |-> "csv", data |-> to_csv(rows)]

\* A JSON value as load_state sees it: its Python type, and the number it
\* counts as in arithmetic and comparisons (True is 1, False is 0).
JInt(n) == [type |-> "int", n |-> n]
JBool(b) == [type |-> "bool", n |-> IF b THEN 1 ELSE 0]
JOther(t) == [type |-> t, n |-> 0]

\* What can be found at STATE_FILE: nothing, a file that cannot be opened or
\* decoded, text that is not JSON, a JSON value that is no object, an object
\* without "next_index", or an object whose "next_index" is some value.
Missing ==
  [exists |-> FALSE, readable |-> FALSE, parses |-> FALSE, is_object |-> FALSE,
   has_key |-> FALSE, value |-> JOther("null")]
Unreadable == [Missing EXCEPT !.exists = TRUE]
NotJson == [Unreadable EXCEPT !.readable = TRUE]
NotObject == [NotJson EXCEPT !.parses = TRUE]
NoKey == [NotObject EXCEPT !.is_object = TRUE]
ObjectWith(v) == [NoKey EXCEPT !.has_key = TRUE, !.value = v]

\* isinstance(x, int): bool is a subclass of int.
IsInstanceInt(v) == v.type \in {"int", "bool"}

\* load_state() on a given content of STATE_FILE: state["next_index"].
load_state_from(c) ==
  IF ~c.exists THEN JInt(0)
  ELSE IF ~c.readable \/ ~c.parses THEN JInt(0)
  ELSE IF ~c.is_object THEN JInt(0)
  ELSE IF ~c.has_key \/ ~IsInstanceInt(c.value) THEN JInt(0)
  ELSE c.value

\* The content of a state file of the model: a truncated file is empty text.
StateContent(f) ==
  IF f.kind = "absent" THEN Missing
  ELSE IF f.kind = "partial" THEN NotJson
  ELSE ObjectWith(JInt(f.data[1]))

\* load_state()["next_index"]: 0 when the file is missing or does not parse.
load_state(f) == load_state_from(StateContent(f)).n

\* load_master_json(): [] when the file is missing or does not parse.
load_master_json(f) == IF f.kind = "json" THEN f.data ELSE << >>

\* load_master_csv(): an empty frame when the file is missing or unreadable.
load_master_csv(f) == IF f.kind = "csv" THEN read_csv(f.data) ELSE << >>

(* ------------------------------------------------------------------ merge *)
\* Python's truth value of item.get("place_url").
Truthy(url) == url # ""

Urls(items) == { items[k].place_url : k \in 1..Len(items) } \ {""}

RECURSIVE FirstByUrl(_, _)
\* The first item of a sequence with the given place_url.
FirstByUrl(items, url) ==
  IF items[1].place_url = url THEN items[1] ELSE FirstByUrl(Tail(items), url)

RECURSIVE LastByUrl(_, _)
\* The last item of a sequence with the given place_url.
LastByUrl(items, url) ==
  IF items[Len(items)].place_url = url THEN items[Len(items)]
  ELSE LastByUrl(SubSeq(items, 1, Len(items) - 1), url)

\* "Latest overwrite": a record of new_items replaces the existing one.
ByUrlLatest(existing, new_items, url) ==
  IF url \in Urls(new_items) THEN LastByUrl(new_items, url)
  ELSE LastByUrl(existing, url)

\* by_url after both loops: existing's last item per url (a later existing
\* item overwrites an earlier one), else new_items' first item for it.
ByUrl(existing, new_items, url) ==
  IF url \in Urls(existing) THEN LastByUrl(existing, url)
  ELSE FirstByUrl(new_items, url)

\* An output loop without the seen set: every item is emitted.
EmitAll(all, seen, existing, new_items) == all

RECURSIVE EmitOrder(_, _, _, _)
\* The output loop: walk existing + new_items, emit by_url[url] the first
\* time url is met.
EmitOrder(all, seen, existing, new_items) ==
  IF all = << >> THEN << >>
  ELSE LET url == all[1].place_url
       IN  IF ~Truthy(url) \/ url \in seen THEN EmitOrder(Tail(all), seen, existing, new_items)
           ELSE << ByUrl(existing, new_items, url) >>
                  \o EmitOrder(Tail(all), seen \cup {url}, existing, new_items)

\* A merge that appends without deduplicating.
MergeAppend(existing, new_items) == existing \o new_items

\* A merge whose output loop walks new_items + existing.
MergeNewFirst(existing, new_items) ==
  EmitOrder(new_items \o existing, {}, existing, new_items)

merge_master_json(existing, new_items) ==
  EmitOrder(existing \o new_items, {}, existing, new_items)

RowKey(r) == << r.place_url, r.user_name, r.timestamp, r.text_review >>

RECURSIVE DropDuplicates(_, _)
\* drop_duplicates(subset=key_cols, keep="first").
DropDuplicates(rows, seen) ==
  IF rows = << >> THEN << >>
  ELSE IF RowKey(rows[1]) \in seen THEN DropDuplicates(Tail(rows), seen)
       ELSE << rows[1] >> \o DropDuplicates(Tail(rows), seen \cup {RowKey(rows[1])})

\* A merge that concatenates the new rows before the existing ones.
MergeCsvNewFirst(existing_df, new_rows) ==
  IF existing_df = << >> THEN new_rows
  ELSE DropDuplicates(new_rows \o existing_df, {})

\* new_df is returned as it is when the existing frame is empty; otherwise
\* concat, then drop_duplicates on the key columns.
merge_master_csv(existing_df, new_rows) ==
  IF existing_df = << >> THEN new_rows
  ELSE DropDuplicates(existing_df \o new_rows, {})

(* ------------------------------------------------------------------ state *)
VARIABLES
  stateFile,      \* progress_state.json
  masterJson,     \* all_places_reviews.json
  masterCsv,      \* all_places_reviews.csv
  profiles,       \* run numbers whose gmaps_profile_part<n> directory exists
  pc,             \* where the running process is; "idle" when none runs
  chunk_size,     \* args.chunk_size of the current (or last) run
  next_index,     \* the resolved next_index / start_index of that run
  end_index,      \* scrape_chunk's end_index
  target_links,   \* scrape_chunk's target_links
  i,              \* scrape_chunk's loop counter (1-based)
  chunk_results,  \* scrape_chunk's chunk_results
  chunk_rows,     \* scrape_chunk's chunk_rows
  merged_json,    \* __main__'s merged_json
  merged_csv,     \* __main__'s merged_csv
  outcomes,       \* what PlaceScraper did for each link of this run's chunk so far
  exit,           \* how the last process ended
  endedAt,        \* pc at which the last process was killed or raised
  savePrev,       \* what load_state returned when the last save_state began
  saveN,          \* the argument of the last save_state begun
  attemptLog,     \* every link handed to PlaceScraper, in call order
  runFrom,        \* Len(attemptLog) when the current (or last) run began
  succeeded,      \* links for which PlaceScraper ever returned
  overrideUsed,   \* some run was given --start_index
  runs,           \* runs that entered scrape_chunk
  fn_in,          \* function-level checks: the arguments a function is applied to
  fn_out          \* function-level checks: whether it was applied, and its result

files == << stateFile, masterJson, masterCsv >>
locals == << end_index, target_links, i, chunk_results, chunk_rows,
             merged_json, merged_csv, outcomes >>
saving == << savePrev, saveN >>
history == << attemptLog, runFrom, succeeded >>
vars == << stateFile, masterJson, masterCsv, profiles, pc, chunk_size,
           next_index, end_index, target_links, i, chunk_results, chunk_rows,
           merged_json, merged_csv, outcomes, exit, endedAt, savePrev, saveN,
           attemptLog, runFrom, succeeded, overrideUsed, runs, fn_in, fn_out >>

\* Everything a run of the driver reads or writes.
process == << stateFile, masterJson, masterCsv, profiles, pc, chunk_size,
              next_index, end_index, target_links, i, chunk_results, chunk_rows,
              merged_json, merged_csv, outcomes, exit, endedAt, savePrev, saveN,
              attemptLog, runFrom, succeeded, overrideUsed, runs >>
fn == << fn_in, fn_out >>

\* No function has been applied.
NotApplied == [done |-> FALSE, v |-> << >>]
\* The function has returned v.
Returned(v) == [done |-> TRUE, v |-> v]

\* No process: nothing has been run yet, no artifact but the input exists.
NoProcess ==
  /\ stateFile = AbsentFile
  /\ masterJson = AbsentFile
  /\ masterCsv = AbsentFile
  /\ profiles = {}
  /\ pc = "idle"
  /\ chunk_size = 0
  /\ next_index = 0
  /\ end_index = 0
  /\ target_links = << >>
  /\ i = 0
  /\ chunk_results = << >>
  /\ chunk_rows = << >>
  /\ merged_json = << >>
  /\ merged_csv = << >>
  /\ outcomes = << >>
  /\ exit = "none"
  /\ endedAt = "none"
  /\ savePrev = 0
  /\ saveN = 0
  /\ attemptLog = << >>
  /\ runFrom = 0
  /\ succeeded = {}
  /\ overrideUsed = FALSE
  /\ runs = 0

Init == NoProcess /\ fn_in = << >> /\ fn_out = NotApplied

\* The memory of a process that has ended.
ClearLocals ==
  /\ end_index' = 0
  /\ target_links' = << >>
  /\ i' = 0
  /\ chunk_results' = << >>
  /\ chunk_rows' = << >>
  /\ merged_json' = << >>
  /\ merged_csv' = << >>
  /\ outcomes' = << >>

(* ------------------------------------------------------------ Run Driver *)
\* The command lines tried: --chunk_size, and --start_index given or not.
ChunkSizes == (0 - 1)..MaxChunk
StartArgs ==
  {[given |-> FALSE, v |-> 0]} \cup {[given |-> TRUE, v |-> x] : x \in (0 - 1)..NumLinks}

\* next_index as __main__ resolves it: the persisted one unless overridden.
Resolved(arg) == IF arg.given THEN arg.v ELSE load_state(stateFile)

\* The exit taken only when next_index is beyond the end (off by one).
NothingToDoStrict(n) == n > Len(links)

\* The guard of the "All links already processed" exit.
NothingToDo(n) == n >= Len(links)

\* run_no, which names the profile directory of the run.
RunNo(n, cs) == PyFloorDiv(n, cs) + 1

\* end_index without the clamp to len(links).
EndIndexUnclamped(start, cs) == start + cs

\* scrape_chunk's end_index.
EndIndex(start, cs) == Min(start + cs, Len(links))

\* A run that finds next_index >= len(links): SystemExit(0).
RunNothingToDo(cs, arg) ==
  /\ pc = "idle"
  /\ NothingToDo(Resolved(arg))
  /\ chunk_size' = cs
  /\ next_index' = Resolved(arg)
  /\ overrideUsed' = (overrideUsed \/ arg.given)
  /\ exit' = "nothing"
  /\ endedAt' = "none"
  /\ UNCHANGED << files, profiles, pc, locals, saving, history, runs >>
  /\ UNCHANGED fn

\* --chunk_size 0: next_index // args.chunk_size raises ZeroDivisionError.
RunZeroDivision(cs, arg) ==
  /\ pc = "idle"
  /\ ~NothingToDo(Resolved(arg))
  /\ cs = 0
  /\ chunk_size' = cs
  /\ next_index' = Resolved(arg)
  /\ overrideUsed' = (overrideUsed \/ arg.given)
  /\ exit' = "error"
  /\ endedAt' = "none"
  /\ UNCHANGED << files, profiles, pc, locals, saving, history, runs >>
  /\ UNCHANGED fn

\* A run that enters scrape_chunk: profile directory made, slice taken.
Enter(cs, arg) ==
  /\ pc = "idle"
  /\ ~NothingToDo(Resolved(arg))
  /\ cs # 0
  /\ chunk_size' = cs
  /\ next_index' = Resolved(arg)
  /\ overrideUsed' = (overrideUsed \/ arg.given)
  /\ profiles' = profiles \cup {RunNo(Resolved(arg), cs)}
  /\ end_index' = EndIndex(Resolved(arg), cs)
  /\ target_links' = PySlice(links, Resolved(arg), EndIndex(Resolved(arg), cs))
  /\ i' = 1
  /\ chunk_results' = << >>
  /\ chunk_rows' = << >>
  /\ merged_json' = << >>
  /\ merged_csv' = << >>
  /\ outcomes' = << >>
  /\ pc' = IF target_links' = << >> THEN "merge" ELSE "scrape"
  /\ exit' = "none"
  /\ endedAt' = "none"
  /\ runFrom' = Len(attemptLog)
  /\ runs' = runs + 1
  /\ UNCHANGED << files, saving, attemptLog, succeeded >>

Begin(cs, arg) == Enter(cs, arg) /\ UNCHANGED fn

RunBegin(cs, arg) == runs < MaxRuns /\ Begin(cs, arg)

(* ---------------------------------------------------------- Chunk Runner *)
\* global_i of the loop's current link.
global_i == next_index + i - 1

\* The index of the link just attempted, saved instead of the one after it.
SavedIndexSame(g) == g

\* The argument of the save_state call that follows every attempt.
SavedIndex(g) == g + 1

\* A failure that ends the loop: the chunk returns what it has.
AfterFailureAborts == "merge"

\* A failure that skips save_state (the call placed inside the try block).
AfterFailureSkipsSave == "sleep"

\* Where the loop goes after the except branch: on to save_state.
AfterFailure == "save_state"

\* PlaceScraper returned: one record and one row per review are buffered.
Scraped(result) ==
  /\ pc = "scrape"
  /\ chunk_results' = Append(chunk_results, ResultRecord(result))
  /\ chunk_rows' = chunk_rows \o ResultRows(result)
  /\ outcomes' = Append(outcomes, [ok |-> TRUE, result |-> result])
  /\ attemptLog' = Append(attemptLog, target_links[i])
  /\ succeeded' = succeeded \cup {target_links[i]}
  /\ pc' = "save_state"
  /\ UNCHANGED << files, profiles, chunk_size, next_index, end_index, target_links,
                  i, merged_json, merged_csv, exit, endedAt, saving, runFrom,
                  overrideUsed, runs >>
  /\ UNCHANGED fn

ScrapeOk ==
  /\ pc = "scrape"
  /\ \E result \in ScrapeResults(target_links[i]) : Scraped(result)

\* PlaceScraper raised: the except branch logs and goes on.
ScrapeFail ==
  /\ pc = "scrape"
  /\ attemptLog' = Append(attemptLog, target_links[i])
  /\ outcomes' = Append(outcomes, [ok |-> FALSE, result |-> NoResult(target_links[i])])
  /\ pc' = AfterFailure
  /\ UNCHANGED << files, profiles, chunk_size, next_index, end_index, target_links,
                  i, chunk_results, chunk_rows, merged_json, merged_csv, exit,
                  endedAt, saving, succeeded, runFrom, overrideUsed, runs >>
  /\ UNCHANGED fn

\* save_state, first half: open(STATE_FILE, "w") truncates the file.
SaveStateOpen ==
  /\ pc = "save_state"
  /\ savePrev' = load_state(stateFile)
  /\ saveN' = SavedIndex(global_i)
  /\ stateFile' = PartialFile
  /\ pc' = "save_state_w"
  /\ UNCHANGED << masterJson, masterCsv, profiles, chunk_size, next_index, locals,
                  exit, endedAt, history, overrideUsed, runs >>
  /\ UNCHANGED fn

\* save_state, second half: json.dump and close.
SaveStateWrite ==
  /\ pc = "save_state_w"
  /\ stateFile' = StateDoc(saveN)
  /\ pc' = "sleep"
  /\ UNCHANGED << masterJson, masterCsv, profiles, chunk_size, next_index, locals,
                  exit, endedAt, saving, history, overrideUsed, runs >>
  /\ UNCHANGED fn

\* asyncio.sleep, then the next link or the return.
Sleep ==
  /\ pc = "sleep"
  /\ IF i < Len(target_links)
       THEN i' = i + 1 /\ pc' = "scrape"
       ELSE i' = i /\ pc' = "merge"
  /\ UNCHANGED << files, profiles, chunk_size, next_index, end_index, target_links,
                  chunk_results, chunk_rows, merged_json, merged_csv, outcomes, exit,
                  endedAt, saving, history, overrideUsed, runs >>
  /\ UNCHANGED fn

(* ------------------------------------------------- Run Driver, after chunk *)
\* Load both stores, merge, and open the Master JSON for writing.
MergeAndOpenJson ==
  /\ pc = "merge"
  /\ merged_json' = merge_master_json(load_master_json(masterJson), chunk_results)
  /\ merged_csv' = merge_master_csv(load_master_csv(masterCsv), chunk_rows)
  /\ masterJson' = PartialFile
  /\ pc' = "json_w"
  /\ UNCHANGED << stateFile, masterCsv, profiles, chunk_size, next_index, end_index,
                  target_links, i, chunk_results, chunk_rows, outcomes, exit,
                  endedAt, saving, history, overrideUsed, runs >>
  /\ UNCHANGED fn

\* save_master_json: json.dump and close.
WriteJson ==
  /\ pc = "json_w"
  /\ masterJson' = JsonDoc(merged_json)
  /\ pc' = "csv"
  /\ UNCHANGED << stateFile, masterCsv, profiles, chunk_size, next_index, locals,
                  exit, endedAt, saving, history, overrideUsed, runs >>
  /\ UNCHANGED fn

\* save_master_csv: to_csv opens the file for writing.
OpenCsv ==
  /\ pc = "csv"
  /\ masterCsv' = PartialFile
  /\ pc' = "csv_w"
  /\ UNCHANGED << stateFile, masterJson, profiles, chunk_size, next_index, locals,
                  exit, endedAt, saving, history, overrideUsed, runs >>
  /\ UNCHANGED fn

\* save_master_csv: rows written, file closed.
WriteCsv ==
  /\ pc = "csv_w"
  /\ masterCsv' = CsvDoc(merged_csv)
  /\ pc' = "final_save"
  /\ UNCHANGED << stateFile, masterJson, profiles, chunk_size, next_index, locals,
                  exit, endedAt, saving, history, overrideUsed, runs >>
  /\ UNCHANGED fn

\* save_state(new_next_index), first half.
FinalSaveOpen ==
  /\ pc = "final_save"
  /\ savePrev' = load_state(stateFile)
  /\ saveN' = end_index
  /\ stateFile' = PartialFile
  /\ pc' = "final_save_w"
  /\ UNCHANGED << masterJson, masterCsv, profiles, chunk_size, next_index, locals,
                  exit, endedAt, history, overrideUsed, runs >>
  /\ UNCHANGED fn

\* save_state(new_next_index), second half; the run ends normally.
FinalSaveWrite ==
  /\ pc = "final_save_w"
  /\ stateFile' = StateDoc(saveN)
  /\ pc' = "idle"
  /\ exit' = "ok"
  /\ ClearLocals
  /\ UNCHANGED << masterJson, masterCsv, profiles, chunk_size, next_index, endedAt,
                  saving, history, overrideUsed, runs >>
  /\ UNCHANGED fn

(* ----------------------------------------------------------------- faults *)
\* Writing a Master Store artifact raises (open or write fails): the
\* exception leaves __main__, the process ends.
PersistFail ==
  /\ pc \in {"merge", "json_w", "csv", "csv_w"}
  /\ endedAt' = pc
  /\ pc' = "idle"
  /\ exit' = "persist_error"
  /\ ClearLocals
  /\ UNCHANGED << files, profiles, chunk_size, next_index, saving, history,
                  overrideUsed, runs >>
  /\ UNCHANGED fn

\* The process is killed.
Kill ==
  /\ pc # "idle"
  /\ endedAt' = pc
  /\ pc' = "idle"
  /\ exit' = "killed"
  /\ ClearLocals
  /\ UNCHANGED << files, profiles, chunk_size, next_index, saving, history,
                  overrideUsed, runs >>
  /\ UNCHANGED fn

Next ==
  \/ \E cs \in ChunkSizes, arg \in StartArgs : RunNothingToDo(cs, arg)
  \/ \E cs \in ChunkSizes, arg \in StartArgs : RunZeroDivision(cs, arg)
  \/ \E cs \in ChunkSizes, arg \in StartArgs : RunBegin(cs, arg)
  \/ ScrapeOk
  \/ ScrapeFail
  \/ SaveStateOpen
  \/ SaveStateWrite
  \/ Sleep
  \/ MergeAndOpenJson
  \/ WriteJson
  \/ OpenCsv
  \/ WriteCsv
  \/ FinalSaveOpen
  \/ FinalSaveWrite
  \/ PersistFail
  \/ Kill

Spec == Init /\ [][Next]_vars

(* ------------------------------------------- complete runs, no override *)
\* No --start_index on the command line.
NoOverride == [given |-> FALSE, v |-> 0]

\* The operator keeps running the driver with some chunk size >= 1 and no
\* override; no process is killed and no write fails.
NextComplete ==
  \/ \E cs \in 1..MaxChunk : RunNothingToDo(cs, NoOverride)
  \/ \E cs \in 1..MaxChunk : Begin(cs, NoOverride)
  \/ ScrapeOk
  \/ ScrapeFail
  \/ SaveStateOpen
  \/ SaveStateWrite
  \/ Sleep
  \/ MergeAndOpenJson
  \/ WriteJson
  \/ OpenCsv
  \/ WriteCsv
  \/ FinalSaveOpen
  \/ FinalSaveWrite

\* A started process runs on (PlaceScraper is bounded by its timeouts, the
\* sleep ends), and the operator starts the next run when one has ended.
SpecComplete == Init /\ [][NextComplete]_vars /\ WF_vars(NextComplete)

(* ----------------------------------------------------------------- claims *)
\* The persisted cursor as the next run without override will read it.
Cursor == load_state(stateFile)

\* The links handed to PlaceScraper by the current (or last) run, in order.
RunLog == SubSeq(attemptLog, runFrom + 1, Len(attemptLog))

\* The place_urls that have a record in the Master JSON store.
StoredUrls == Urls(load_master_json(masterJson))

\* C1: whenever no run is in progress (after a normal exit or a kill; runs
\* with a positive chunk size and no override), every link at an index below
\* the persisted next_index for which PlaceScraper returned has a record in
\* the Master JSON store.
C1_ResumeLosesNoRecord ==
  (pc = "idle" /\ ~overrideUsed /\ chunk_size >= 1) =>
    \A k \in 1..Len(links) :
      (k - 1 < Cursor /\ links[k] \in succeeded) => links[k] \in StoredUrls

\* The pcs of a run at which an attempt has ended, the save_state call that
\* follows it has begun, and no further attempt has begun.
BetweenAttempts ==
  {"save_state_w", "sleep", "merge", "json_w", "csv", "csv_w", "final_save",
   "final_save_w"}

\* The 0-based index of a link in the LinkSet.
IndexOf(link) == (CHOOSE k \in 1..Len(links) : links[k] = link) - 1

\* C2: a process (positive chunk size, no override) killed after the attempt
\* on link k ended and before the attempt on link k+1 began leaves a cursor
\* of k+1: the next run without override starts at k+1.
C2_KillBetweenAttemptsResumesAtNext ==
  (pc = "idle" /\ exit = "killed" /\ ~overrideUsed /\ chunk_size >= 1
     /\ endedAt \in BetweenAttempts /\ RunLog # << >>)
    => Cursor = IndexOf(attemptLog[Len(attemptLog)]) + 1

\* C3: in scrape_chunk, once the attempt on the link at global index g has
\* ended (PlaceScraper returned or raised) and before the next attempt
\* begins, the persisted next_index is g + 1.
C3_CursorSavedAfterEveryAttempt ==
  /\ (pc = "sleep" \/ (pc = "merge" /\ target_links # << >>))
       => stateFile = StateDoc(global_i + 1)
  /\ (pc = "scrape" /\ i > 1) => stateFile = StateDoc(global_i)

\* C3 witness: the second attempt of a chunk is about to begin, the first
\* one raised, and the cursor is already past it.
C3_Witness ==
  /\ pc = "scrape" /\ i = 2
  /\ ~outcomes[1].ok
  /\ stateFile = StateDoc(global_i)

RECURSIVE OkRecords(_)
\* The records of the outcomes that are successes, in order.
OkRecords(os) ==
  IF os = << >> THEN << >>
  ELSE (IF os[1].ok THEN << ResultRecord(os[1].result) >> ELSE << >>)
         \o OkRecords(Tail(os))

RECURSIVE OkRows(_)
\* The rows of the outcomes that are successes, in order.
OkRows(os) ==
  IF os = << >> THEN << >>
  ELSE (IF os[1].ok THEN ResultRows(os[1].result) ELSE << >>) \o OkRows(Tail(os))

\* C4: when scrape_chunk returns, every link of the chunk has been attempted
\* whatever failed before it, the cursor is past all of them, and the buffers
\* hold exactly the records and rows of the links that succeeded.
C4_FailureDoesNotAbortChunk ==
  (pc = "merge") =>
    /\ Len(outcomes) = Len(target_links)
    /\ RunLog = target_links
    /\ \A j \in 1..Len(outcomes) : outcomes[j].result.place_url = target_links[j]
    /\ chunk_results = OkRecords(outcomes)
    /\ chunk_rows = OkRows(outcomes)
    /\ target_links # << >> => stateFile = StateDoc(next_index + Len(target_links))

\* C4 witness: a chunk whose first link failed and whose second succeeded
\* with a review has returned.
C4_Witness ==
  /\ pc = "merge"
  /\ Len(outcomes) = 2
  /\ ~outcomes[1].ok /\ outcomes[2].ok
  /\ Len(chunk_results) = 1 /\ Len(chunk_rows) = 1

\* C5: without any override, no completed write to the Progress Store
\* stores a value smaller than the one persisted when the write began.
C5_CursorNeverDecreases ==
  [][(~overrideUsed /\ stateFile' # stateFile /\ stateFile'.kind = "json")
       => stateFile'.data[1] >= savePrev]_vars

\* C6: a completed run of a chunk of size k >= 1 from index s >= 0 leaves
\* the cursor at min(s+k, m) and has attempted exactly links s .. min(s+k, m)-1.
C6_ChunkBounds ==
  (pc = "idle" /\ exit = "ok" /\ chunk_size >= 1 /\ next_index >= 0) =>
    /\ stateFile = StateDoc(Min(next_index + chunk_size, Len(links)))
    /\ RunLog = SubSeq(links, next_index + 1, Min(next_index + chunk_size, Len(links)))

\* C6 witness: links [a, b, c, ..], chunk_size 2 from 0: a and b attempted,
\* cursor 2.
C6_Witness ==
  /\ pc = "idle" /\ exit = "ok"
  /\ chunk_size = 2 /\ next_index = 0
  /\ RunLog = << "a", "b" >>
  /\ Cursor = 2

\* No run is in progress and the cursor is at the end of the LinkSet.
AllAttempted == pc = "idle" /\ Cursor = Len(links)

\* The value last completely written to the Progress Store (0 before any).
Persisted == IF stateFile.kind = "partial" THEN savePrev ELSE Cursor

\* C7: from cursor 0, complete runs with chunk_size >= 1 and no override
\* eventually bring the cursor to len(links); then every link has been
\* attempted exactly once, in LinkSet order; the cursor value changes once
\* per attempt (by one, to the number of attempts made); and a further run
\* changes neither the stores nor the attempts.
C7_CompleteRunsReachTheEnd ==
  /\ <>AllAttempted
  /\ [](AllAttempted => attemptLog = links)
  /\ [][Persisted' # Persisted
         => (Persisted' = Persisted + 1 /\ Persisted' = Len(attemptLog))]_vars
  /\ [][AllAttempted
         => (AllAttempted' /\ attemptLog' = attemptLog /\ stateFile' = stateFile
             /\ masterJson' = masterJson /\ masterCsv' = masterCsv)]_vars

\* C7 witness: the cursor is at the end, a link has failed on the way, and
\* one more run has ended with nothing to do.
C7_Witness ==
  /\ AllAttempted
  /\ exit = "nothing"
  /\ attemptLog = links
  /\ succeeded # {} /\ Cardinality(succeeded) < Len(links)

\* C8: a run whose resolved next_index is >= len(links) ends at once with the
\* nothing-to-do outcome, calls PlaceScraper for no link and leaves the
\* Progress Store and both Master Store views as they were.
C8_NothingToDoIsNoOp ==
  [][(pc = "idle" /\ next_index' >= Len(links))
       => (pc' = "idle" /\ exit' = "nothing" /\ attemptLog' = attemptLog
           /\ stateFile' = stateFile /\ masterJson' = masterJson
           /\ masterCsv' = masterCsv)]_vars

\* C8 witness: a nothing-to-do run has ended over stores a run has written.
C8_Witness ==
  /\ pc = "idle" /\ exit = "nothing"
  /\ next_index >= Len(links)
  /\ masterJson.kind = "json" /\ Len(masterJson.data) > 0
  /\ masterCsv.kind = "csv"

\* C9: after a run (positive chunk size, no override) that failed writing a
\* Master Store artifact, the next run without override starts at the failed
\* run's start index, so that the chunk is processed again and the records
\* of its successfully scraped links reach the Master JSON store.
C9_FailedWriteIsRetried ==
  (pc = "idle" /\ exit = "persist_error" /\ ~overrideUsed /\ chunk_size >= 1)
    => Cursor = next_index

\* C10: after a kill during save_state(n), load_state returns the value
\* persisted before the call or n.
C10_SaveStateKeepsOldOrNew ==
  (pc = "idle" /\ exit = "killed" /\ chunk_size >= 1
     /\ endedAt \in {"save_state_w", "final_save_w"})
    => Cursor \in {savePrev, saveN}

(* ------------------------------------------- merge_master_json, applied *)
\* Longest list of records tried for existing and for new_items.
MaxItems == 2

\* All sequences over S of length at most n.
SeqsUpTo(S, n) == UNION { [1..k -> S] : k \in 0..n }

\* Records as the Master JSON file or a chunk may hold them: the place_url
\* may repeat within a list and may be empty; the reviews tell two records
\* of one place apart.
Items ==
  { [place_url |-> u, place_name |-> "n", place_location |-> "loc", reviews |-> rs]
      : u \in {"", "a", "b"}, rs \in ReviewLists }

InitMergeJson ==
  /\ NoProcess
  /\ fn_in \in { [existing |-> e, new_items |-> n, origin |-> e, round |-> 1]
                   : e \in SeqsUpTo(Items, MaxItems), n \in SeqsUpTo(Items, MaxItems) }
  /\ fn_out = NotApplied

\* merged_json = merge_master_json(master_json, chunk_results).
ApplyMergeJson ==
  /\ ~fn_out.done
  /\ fn_out' = Returned(merge_master_json(fn_in.existing, fn_in.new_items))
  /\ UNCHANGED << fn_in, process >>

\* The next run loads what was merged and merges the same chunk output again.
ApplyMergeJsonAgain ==
  /\ fn_out.done
  /\ fn_in.round = 1
  /\ fn_in' = [fn_in EXCEPT !.existing = fn_out.v, !.round = 2]
  /\ fn_out' = Returned(merge_master_json(fn_out.v, fn_in.new_items))
  /\ UNCHANGED process

NextMergeJson == ApplyMergeJson \/ ApplyMergeJsonAgain

SpecMergeJson == InitMergeJson /\ [][NextMergeJson]_vars

\* C11: every place_url occurs at most once in the output of
\* merge_master_json(E, N), also when E or N repeat a place_url.
C11_OutputUrlsUnique ==
  fn_out.done =>
    \A j, k \in 1..Len(fn_out.v) :
      fn_out.v[j].place_url = fn_out.v[k].place_url => j = k

\* C11 witness: E holds the same place_url twice, N holds it once more, and
\* the merge has returned a single record.
C11_Witness ==
  /\ fn_out.done /\ fn_in.round = 1
  /\ Len(fn_in.existing) = 2 /\ Len(fn_in.new_items) = 1
  /\ fn_in.existing[1].place_url = "a" /\ fn_in.existing[2].place_url = "a"
  /\ fn_in.new_items[1].place_url = "a"
  /\ Len(fn_out.v) = 1

\* C12: for a place_url that E and N both hold, the output has a record, and
\* that record is a record of E as a whole (reviews included), not N's.
C12_ExistingRecordWins ==
  fn_out.done =>
    \A url \in Urls(fn_in.existing) \cap Urls(fn_in.new_items) :
      /\ \E k \in 1..Len(fn_out.v) : fn_out.v[k].place_url = url
      /\ \A k \in 1..Len(fn_out.v) :
           fn_out.v[k].place_url = url
             => \E j \in 1..Len(fn_in.existing) : fn_in.existing[j] = fn_out.v[k]

\* C12 witness: E has place "a" without reviews, N has "a" with a review; the
\* output's record for "a" has no review.
C12_Witness ==
  /\ fn_out.done /\ fn_in.round = 1
  /\ Len(fn_in.existing) = 1 /\ Len(fn_in.new_items) = 1
  /\ fn_in.existing[1].place_url = "a" /\ fn_in.existing[1].reviews = << >>
  /\ fn_in.new_items[1].place_url = "a" /\ fn_in.new_items[1].reviews = << Rev1 >>
  /\ Len(fn_out.v) = 1 /\ fn_out.v[1].reviews = << >>

\* C13: merging L into the empty store and then merging L again into the
\* result returns that result: merge(merge([], L), L) = merge([], L).
C13_RemergeIsNoOp ==
  (fn_out.done /\ fn_in.round = 2 /\ fn_in.origin = << >>)
    => fn_out.v = fn_in.existing

\* C13 witness: a list of two different places was merged twice from empty.
C13_Witness ==
  /\ fn_out.done /\ fn_in.round = 2 /\ fn_in.origin = << >>
  /\ Len(fn_in.new_items) = 2
  /\ Len(fn_out.v) = 2

RECURSIVE NotIn(_, _)
\* The items of a list whose place_url is not among the given ones.
NotIn(items, urls) ==
  IF items = << >> THEN << >>
  ELSE (IF items[1].place_url \in urls THEN << >> ELSE << items[1] >>)
         \o NotIn(Tail(items), urls)

\* The place_urls of a list are non-empty and pairwise distinct.
DistinctUrls(items) ==
  \A j, k \in 1..Len(items) :
    /\ Truthy(items[j].place_url)
    /\ items[j].place_url = items[k].place_url => j = k

\* E followed by the records of N whose place_url E does not hold.
ExistingThenNew(e, n) == e \o NotIn(n, { e[k].place_url : k \in 1..Len(e) })

\* C14, as stated: the output is the records of E in E's order, followed by
\* the records of N whose place_url is not in E, in N's order.
C14_ExistingThenNewAlways ==
  fn_out.done => fn_out.v = ExistingThenNew(fn_in.existing, fn_in.new_items)

\* C14, amended: when the place_urls within E and within N are non-empty and
\* pairwise distinct, the output is the records of E in E's order, followed
\* by the records of N whose place_url is not in E, in N's order.
C14_ExistingThenNewWhenDistinct ==
  (fn_out.done /\ DistinctUrls(fn_in.existing) /\ DistinctUrls(fn_in.new_items))
    => fn_out.v = ExistingThenNew(fn_in.existing, fn_in.new_items)

\* C14 witness: E = [a, b], N = [b', a'] with other reviews: the output is E.
C14_Witness ==
  /\ fn_out.done /\ fn_in.round = 1
  /\ Len(fn_in.existing) = 2 /\ Len(fn_in.new_items) = 2
  /\ fn_in.existing[1].place_url = "a" /\ fn_in.existing[2].place_url = "b"
  /\ fn_in.new_items[1].place_url = "b" /\ fn_in.new_items[2].place_url = "a"
  /\ fn_in.new_items[1].reviews # fn_in.existing[2].reviews
  /\ fn_out.v = fn_in.existing

(* -------------------------------------------- merge_master_csv, applied *)
MaxRows == 2

\* Rows of one place: the user_name tells two keys apart, the rating two
\* rows of one key.
Rows ==
  { [place_url |-> "a", place_name |-> "n", place_location |-> "loc",
     user_name |-> u, rating |-> r, timestamp |-> "t1", text_review |-> "x"]
      : u \in {"u1", "u2"}, r \in {4, 5} }

InitMergeCsv ==
  /\ NoProcess
  /\ fn_in \in { [existing_df |-> e, new_rows |-> n]
                   : e \in SeqsUpTo(Rows, MaxRows), n \in SeqsUpTo(Rows, MaxRows) }
  /\ fn_out = NotApplied

\* merged_csv = merge_master_csv(master_csv, chunk_rows).
ApplyMergeCsv ==
  /\ ~fn_out.done
  /\ fn_out' = Returned(merge_master_csv(fn_in.existing_df, fn_in.new_rows))
  /\ UNCHANGED << fn_in, process >>

NextMergeCsv == ApplyMergeCsv

SpecMergeCsv == InitMergeCsv /\ [][NextMergeCsv]_vars

\* C15: the output of merge_master_csv never holds two rows with the same
\* (place_url, user_name, timestamp, text_review), for every existing table
\* (the empty one included) and every list of new rows.
C15_NoDuplicateKeys ==
  fn_out.done =>
    \A j, k \in 1..Len(fn_out.v) :
      RowKey(fn_out.v[j]) = RowKey(fn_out.v[k]) => j = k

Keys(rows) == { RowKey(rows[k]) : k \in 1..Len(rows) }

RECURSIVE FirstByKey(_, _)
\* The first row of a sequence with the given key.
FirstByKey(rows, key) ==
  IF RowKey(rows[1]) = key THEN rows[1] ELSE FirstByKey(Tail(rows), key)

RECURSIVE IsSubsequence(_, _)
\* s can be obtained from t by deleting rows.
IsSubsequence(s, t) ==
  IF s = << >> THEN TRUE
  ELSE IF t = << >> THEN FALSE
  ELSE IF s[1] = t[1] THEN IsSubsequence(Tail(s), Tail(t))
  ELSE IsSubsequence(s, Tail(t))

\* C16: the output keeps the first occurrence of each key of existing ++ new;
\* for a key that an existing row and a new row share, the output's only row
\* with that key is the (first) existing one; and the output's rows are in
\* the order they have in existing ++ new.
C16_FirstOccurrenceKept ==
  fn_out.done =>
    LET all == fn_in.existing_df \o fn_in.new_rows
        out == fn_out.v
    IN  /\ \A key \in Keys(all) :
             \E k \in 1..Len(out) : out[k] = FirstByKey(all, key)
        /\ \A key \in Keys(fn_in.existing_df) \cap Keys(fn_in.new_rows) :
             \A k \in 1..Len(out) :
               RowKey(out[k]) = key => out[k] = FirstByKey(fn_in.existing_df, key)
        /\ IsSubsequence(out, all)

\* C16 witness: the existing row of user u1 has rating 4, the new rows are
\* u1 with rating 5 and then u2; the output is the existing row, then u2's.
C16_Witness ==
  /\ fn_out.done
  /\ Len(fn_in.existing_df) = 1 /\ Len(fn_in.new_rows) = 2
  /\ fn_in.existing_df[1].user_name = "u1" /\ fn_in.existing_df[1].rating = 4
  /\ fn_in.new_rows[1].user_name = "u1" /\ fn_in.new_rows[1].rating = 5
  /\ fn_in.new_rows[2].user_name = "u2"
  /\ fn_out.v = << fn_in.existing_df[1], fn_in.new_rows[2] >>

(* -------------------------------------------------- load_state, applied *)
MaxStored == 24

\* The values a "next_index" member can have in a JSON document.
JValues ==
  { JInt(n) : n \in (0 - MaxStored)..MaxStored }
    \cup { JBool(b) : b \in BOOLEAN }
    \cup { JOther(t) : t \in {"float", "str", "null", "array"} }

StateContents ==
  { Missing, Unreadable, NotJson, NotObject, NoKey } \cup { ObjectWith(v) : v \in JValues }

InitLoadState ==
  /\ NoProcess
  /\ fn_in \in StateContents
  /\ fn_out = NotApplied

\* state = load_state().
ApplyLoadState ==
  /\ ~fn_out.done
  /\ fn_out' = Returned(load_state_from(fn_in))
  /\ UNCHANGED << fn_in, process >>

NextLoadState == ApplyLoadState

SpecLoadState == InitLoadState /\ [][NextLoadState]_vars

\* The file is missing, unreadable, not JSON, not an object, lacks
\* next_index, or its next_index is not an integer.
Malformed(c) ==
  \/ ~c.exists \/ ~c.readable \/ ~c.parses \/ ~c.is_object \/ ~c.has_key
  \/ c.value.type # "int"

\* C18: for a missing, unreadable or malformed state file (a next_index of
\* the wrong type included) load_state returns next_index 0.
C18_MalformedGivesZero ==
  (fn_out.done /\ Malformed(fn_in)) => fn_out.v.n = 0

\* C19: every integer next_index load_state returns is >= 0, whatever the
\* content of the state file.
C19_LoadedIndexNonNegative ==
  (fn_out.done /\ fn_out.v.type = "int") => fn_out.v.n >= 0

(* -------------------------------------------------- load_links, applied *)
MaxEntries == 4

\* The entries of the input array: strings, and values that are no strings
\* (a number, a nested array; s is how they print).
Str(s) == [type |-> "str", s |-> s]
NonStr(t, s) == [type |-> t, s |-> s]
Entries == { Str("a"), Str("b"), NonStr("number", "1"), NonStr("array", "[a]") }

\* isinstance(x, str).
IsInstanceStr(x) == x.type = "str"

RECURSIVE KeepStrings(_, _)
\* A loop that does not look at the seen set.
KeepStrings(data, seen) ==
  IF data = << >> THEN << >>
  ELSE (IF IsInstanceStr(data[1]) THEN << data[1].s >> ELSE << >>)
         \o KeepStrings(Tail(data), seen)

RECURSIVE UniqueInOrder(_, _)
\* The loop over data: a string not seen before is appended and remembered.
UniqueInOrder(data, seen) ==
  IF data = << >> THEN << >>
  ELSE IF IsInstanceStr(data[1]) /\ data[1].s \notin seen
       THEN << data[1].s >> \o UniqueInOrder(Tail(data), seen \cup {data[1].s})
       ELSE UniqueInOrder(Tail(data), seen)

\* What can be found at the path: nothing, text that is not JSON, a JSON
\* value that is no array, or an array.
NoLinkFile == [kind |-> "missing", data |-> << >>]
BadLinkFile == [kind |-> "not json", data |-> << >>]
NoArray == [kind |-> "not array", data |-> << >>]
ArrayOf(data) == [kind |-> "array", data |-> data]

\* An exception leaves the call.
Raised(e) == [done |-> TRUE, v |-> << >>, raised |-> e]
\* The call returned out.
ReturnedLinks(out) == [done |-> TRUE, v |-> out, raised |-> "none"]

load_links(file) ==
  IF file.kind = "missing" THEN Raised("FileNotFoundError")
  ELSE IF file.kind = "not json" THEN Raised("JSONDecodeError")
  ELSE IF file.kind = "not array" THEN Raised("ValueError")
  ELSE ReturnedLinks(UniqueInOrder(file.data, {}))

InitLoadLinks ==
  /\ NoProcess
  /\ fn_in \in { NoLinkFile, BadLinkFile, NoArray }
                 \cup { ArrayOf(d) : d \in SeqsUpTo(Entries, MaxEntries) }
  /\ fn_out = NotApplied

\* links = load_links(INPUT_FILE).
ApplyLoadLinks ==
  /\ ~fn_out.done
  /\ fn_out' = load_links(fn_in)
  /\ UNCHANGED << fn_in, process >>

NextLoadLinks == ApplyLoadLinks

SpecLoadLinks == InitLoadLinks /\ [][NextLoadLinks]_vars

\* The position of the first occurrence of the string s in the array.
FirstAt(data, s) ==
  CHOOSE m \in 1..Len(data) :
    /\ data[m] = Str(s)
    /\ \A l \in 1..(m - 1) : data[l] # Str(s)

\* C20: for an input array, load_links returns without error exactly the
\* strings of the array, each once, ordered by their first occurrence in the
\* array; entries that are no strings do not appear.
C20_StringsOnceInFirstSeenOrder ==
  (fn_out.done /\ fn_in.kind = "array") =>
    LET data == fn_in.data
        out == fn_out.v
    IN  /\ fn_out.raised = "none"
        /\ { out[k] : k \in 1..Len(out) }
             = { data[m].s : m \in { l \in 1..Len(data) : data[l].type = "str" } }
        /\ \A j, k \in 1..Len(out) : out[j] = out[k] => j = k
        /\ \A j, k \in 1..Len(out) :
             j < k => FirstAt(data, out[j]) < FirstAt(data, out[k])

\* C20 witness: ["a", 1, "b", "a"] gives ["a", "b"].
C20_Witness ==
  /\ fn_out.done
  /\ fn_in = ArrayOf(<< Str("a"), NonStr("number", "1"), Str("b"), Str("a") >>)
  /\ fn_out.v = << "a", "b" >>

(* ------------------------------------------------- a chunk run twice *)
\* A review that has a rating and no text: _extract_reviews leaves
\* text_review "".
RatingOnly == [user_name |-> "u2", rating |-> 4, timestamp |-> "t2", text_review |-> ""]

\* PlaceScraper returns the same reviews whenever it is given the same link:
\* fn_in is the reviews it returns for each link.
Scrapers == [ { links[k] : k \in 1..Len(links) } -> ReviewLists \cup { << RatingOnly >> } ]

InitRerun ==
  /\ NoProcess
  /\ fn_in \in Scrapers
  /\ fn_out = NotApplied

\* The first run of the chunk: any chunk size >= 1, a start inside the links.
FirstRun(cs, arg) ==
  /\ runs = 0
  /\ cs >= 1
  /\ Resolved(arg) \in 0..(Len(links) - 1)
  /\ Begin(cs, arg)

\* The same chunk again: same chunk size, --start_index set to the start of
\* the first run. fn_out keeps what the stores held, read back, before it.
Rerun ==
  /\ runs = 1
  /\ exit = "ok"
  /\ Enter(chunk_size, [given |-> TRUE, v |-> next_index])
  /\ fn_out' = Returned([json |-> load_master_json(masterJson),
                         csv |-> load_master_csv(masterCsv)])
  /\ UNCHANGED fn_in

\* PlaceScraper returned what it returns for this link.
ScrapeSame ==
  /\ pc = "scrape"
  /\ Scraped([place_url |-> target_links[i], place_name |-> "n",
              place_location |-> "loc", reviews |-> fn_in[target_links[i]]])

NextRerun ==
  \/ \E cs \in 1..MaxChunk, arg \in StartArgs : FirstRun(cs, arg)
  \/ Rerun
  \/ ScrapeSame
  \/ SaveStateOpen
  \/ SaveStateWrite
  \/ Sleep
  \/ MergeAndOpenJson
  \/ WriteJson
  \/ OpenCsv
  \/ WriteCsv
  \/ FinalSaveOpen
  \/ FinalSaveWrite

SpecRerun == InitRerun /\ [][NextRerun]_vars

\* C17: after the second run of a chunk that was already merged, the Master
\* JSON store and the Master table store, read back from their artifacts,
\* hold the records and rows they held after the first run.
C17_RerunIsAbsorbed ==
  (runs = 2 /\ pc = "idle" /\ exit = "ok")
    => /\ load_master_json(masterJson) = fn_out.v.json
       /\ load_master_csv(masterCsv) = fn_out.v.csv

(* ------------------------------------------- runs over the input artifact *)
\* The input artifact that holds the links of the model.
LinksFile == ArrayOf([k \in 1..Len(links) |-> Str(links[k])])

InputFiles == { NoLinkFile, BadLinkFile, NoArray, LinksFile }

InitInput ==
  /\ NoProcess
  /\ fn_in = LinksFile
  /\ fn_out = NotApplied

\* Between two runs the input artifact is removed, replaced or restored.
ReplaceInput(file) ==
  /\ pc = "idle"
  /\ file # fn_in
  /\ fn_in' = file
  /\ UNCHANGED << fn_out, process >>

\* A driver that writes the initial state before it loads the links.
StateFileReset == StateDoc(0)

\* The state file when load_links raises: load_links is the first statement
\* after the arguments are parsed, nothing has been written.
StateFileAtInputError == stateFile

\* links = load_links(INPUT_FILE) raises: the exception leaves __main__.
RunInputError ==
  /\ pc = "idle"
  /\ load_links(fn_in).raised # "none"
  /\ exit' = load_links(fn_in).raised
  /\ endedAt' = "load_links"
  /\ stateFile' = StateFileAtInputError
  /\ UNCHANGED << masterJson, masterCsv, profiles, pc, chunk_size, next_index,
                  locals, saving, history, overrideUsed, runs >>
  /\ UNCHANGED fn

\* load_links returned the links: the run goes on as in NextComplete.
RunStep ==
  /\ load_links(fn_in) = ReturnedLinks(links)
  /\ NextComplete

NextInput ==
  \/ \E file \in InputFiles : ReplaceInput(file)
  \/ RunInputError
  \/ RunStep

SpecInput == InitInput /\ [][NextInput]_vars

\* C21: a run started while the input artifact is missing or is no array
\* ends with an error, hands no link to PlaceScraper, and leaves the
\* Progress Store and both Master Store views as they were.
C21_BadInputFailsBeforeScraping ==
  [][(pc = "idle" /\ fn_in' = fn_in /\ fn_in.kind \in {"missing", "not array"})
       => (/\ pc' = "idle"
           /\ exit' \in {"FileNotFoundError", "ValueError"}
           /\ attemptLog' = attemptLog
           /\ stateFile' = stateFile /\ masterJson' = masterJson
           /\ masterCsv' = masterCsv)]_vars

\* C21 witness: a run has failed on a missing input artifact over stores an
\* earlier run has written.
C21_Witness ==
  /\ pc = "idle" /\ exit = "FileNotFoundError"
  /\ fn_in = NoLinkFile
  /\ masterJson.kind = "json" /\ Len(masterJson.data) > 0
  /\ stateFile.kind = "json" /\ stateFile.data[1] > 0

(* ------------------------------------------ _scroll_reviews_until_done *)
MaxRounds == 10
MaxStars == 2

\* The rounds without a change of the star count after which the loop ends.
StagnantLimit == 8

\* The loop's variables before the first round; scrolls counts the scrollBy
\* calls; prev and same record what was observed: the last star count seen,
\* and for how many rounds in a row the count was the one seen the round
\* before.
ScrollStart ==
  [at |-> "enter", round |-> 0, last |-> 0 - 1, stagnant |-> 0, scrolls |-> 0,
   prev |-> 0 - 1, same |-> 0, raised |-> "none"]

\* A loop that does not reset the counter when the count changes.
StagnantKept(stagnant) == stagnant

\* stagnant after a round in which the count changed.
StagnantReset(stagnant) == 0

\* One round of the for loop, with current = await stars.count().
ScrollRound(s, current, max_rounds) ==
  LET stagnant == IF current = s.last THEN s.stagnant + 1 ELSE StagnantReset(s.stagnant)
      break == stagnant >= StagnantLimit
  IN  [s EXCEPT !.round = s.round + 1,
                !.last = current,
                !.stagnant = stagnant,
                !.scrolls = IF break THEN s.scrolls ELSE s.scrolls + 1,
                !.prev = current,
                !.same = IF current = s.prev THEN s.same + 1 ELSE 0,
                !.at = IF break \/ s.round + 1 >= max_rounds THEN "returned" ELSE "loop"]

\* The statements before the loop: the Reviews view is verified, the scroll
\* container is looked up.
ScrollEntered(s, visible, scrollbox, max_rounds) ==
  IF ~visible THEN [s EXCEPT !.at = "raised", !.raised = "RuntimeError"]
  ELSE IF ~scrollbox \/ max_rounds <= 0 THEN [s EXCEPT !.at = "returned"]
  ELSE [s EXCEPT !.at = "loop"]

\* The page as the function finds it, and the max_rounds it is given.
ScrollCalls ==
  [max_rounds : 0..MaxRounds, visible : BOOLEAN, scrollbox : BOOLEAN]

InitScroll ==
  /\ NoProcess
  /\ fn_in \in ScrollCalls
  /\ fn_out = ScrollStart

EnterScroll ==
  /\ fn_out.at = "enter"
  /\ fn_out' = ScrollEntered(fn_out, fn_in.visible, fn_in.scrollbox, fn_in.max_rounds)
  /\ UNCHANGED << fn_in, process >>

\* A round: the page shows some number of review stars.
RoundOfScroll ==
  /\ fn_out.at = "loop"
  /\ \E current \in 0..MaxStars :
       fn_out' = ScrollRound(fn_out, current, fn_in.max_rounds)
  /\ UNCHANGED << fn_in, process >>

NextScroll == EnterScroll \/ RoundOfScroll

\* Every await of the function returns.
SpecScroll == InitScroll /\ [][NextScroll]_vars /\ WF_vars(NextScroll)

\* C27: the function ends; it scrolls at most max_rounds times; it does not
\* scroll in or after a round that is the 8th in a row to show the count of
\* the round before; and a round in which the count changes sets stagnant
\* to 0.
C27_ScrollTerminates ==
  /\ <>(fn_out.at \in {"returned", "raised"})
  /\ [](fn_out.scrolls <= fn_in.max_rounds)
  /\ [][fn_out'.same >= StagnantLimit
          => (fn_out'.scrolls = fn_out.scrolls /\ fn_out'.at = "returned")]_vars
  /\ [][(fn_out.at = "loop" /\ fn_out'.prev # fn_out.prev)
          => fn_out'.stagnant = 0]_vars

\* C27 witness: the loop has ended after 8 rounds in a row without a change,
\* having scrolled before, with rounds to spare.
C27_Witness ==
  /\ fn_out.at = "returned"
  /\ fn_out.same = StagnantLimit
  /\ fn_out.scrolls > 0
  /\ fn_out.round < fn_in.max_rounds

(* ------------------------------------------ scrape_google_maps_reviews *)
MaxReviewsArg == 2
MaxScrollsArg == 2
MaxCards == 3

\* The arguments the function passes on, whatever it is given.
ScrollRounds == 250
ExtractLimit == 5000

\* A call: the limits given, and the review cards the place page holds once
\* the reviews are loaded.
ScraperCalls ==
  [place_url : {"a"}, max_reviews : 1..MaxReviewsArg, max_scrolls : 1..MaxScrollsArg,
   cards : 0..MaxCards]

\* The function before its first statement: no browser context yet.
ScraperStart ==
  [at |-> "launch", context |-> "none", raised |-> "none", reviews |-> << >>,
   scroll |-> ScrollStart]

\* _extract_reviews(page, limit): the first min(n, limit) cards, in order.
extract_reviews(cards, limit) == [k \in 1..Min(cards, limit) |-> k]

\* finally: await context.close().
Finally(s) == [s EXCEPT !.context = "closed"]

InitScraper ==
  /\ NoProcess
  /\ fn_in \in ScraperCalls
  /\ fn_out = ScraperStart

\* launch_persistent_context returns a context, or raises.
LaunchContext ==
  /\ fn_out.at = "launch"
  /\ \/ fn_out' = [fn_out EXCEPT !.context = "open", !.at = "new_page"]
     \/ fn_out' = [fn_out EXCEPT !.at = "raised", !.raised = "Error"]
  /\ UNCHANGED << fn_in, process >>

\* page = await context.new_page(), before the try statement: an exception
\* here leaves the function at once.
NewPage ==
  /\ fn_out.at = "new_page"
  /\ \/ fn_out' = [fn_out EXCEPT !.at = "goto"]
     \/ fn_out' = [fn_out EXCEPT !.at = "raised", !.raised = "Error"]
  /\ UNCHANGED << fn_in, process >>

\* goto, consent, wait_for_selector, identity, reviews panel: all return, or
\* one times out or fails (except / finally).
Navigate ==
  /\ fn_out.at = "goto"
  /\ \/ fn_out' = [fn_out EXCEPT !.at = "scroll"]
     \/ \E e \in {"RuntimeError", "Error"} :
          fn_out' = Finally([fn_out EXCEPT !.at = "raised", !.raised = e])
  /\ UNCHANGED << fn_in, process >>

\* _scroll_reviews_until_done(page, pause_ms=900, max_rounds=250) begins.
EnterReviews ==
  /\ fn_out.at = "scroll"
  /\ \E visible \in BOOLEAN, scrollbox \in BOOLEAN :
       LET sc == ScrollEntered(fn_out.scroll, visible, scrollbox, ScrollRounds)
       IN  fn_out' =
             IF sc.at = "raised"
             THEN Finally([fn_out EXCEPT !.at = "raised", !.raised = sc.raised, !.scroll = sc])
             ELSE [fn_out EXCEPT !.scroll = sc,
                                 !.at = IF sc.at = "returned" THEN "extract" ELSE "rounds"]
  /\ UNCHANGED << fn_in, process >>

\* One round of the scroll loop.
ScrollReviews ==
  /\ fn_out.at = "rounds"
  /\ \E current \in 0..MaxStars :
       LET sc == ScrollRound(fn_out.scroll, current, ScrollRounds)
       IN  fn_out' = [fn_out EXCEPT !.scroll = sc,
                                    !.at = IF sc.at = "returned" THEN "extract" ELSE "rounds"]
  /\ UNCHANGED << fn_in, process >>

\* reviews = await _extract_reviews(page, limit=5000); return PlaceReviews.
ExtractAndReturn ==
  /\ fn_out.at = "extract"
  /\ fn_out' = Finally([fn_out EXCEPT !.at = "returned",
                                      !.reviews = extract_reviews(fn_in.cards, ExtractLimit)])
  /\ UNCHANGED << fn_in, process >>

NextScraper ==
  \/ LaunchContext
  \/ NewPage
  \/ Navigate
  \/ EnterReviews
  \/ ScrollReviews
  \/ ExtractAndReturn

SpecScraper == InitScraper /\ [][NextScraper]_vars

\* C22: the record returned holds at most max_reviews reviews, and the scroll
\* loop has run at most max_scrolls rounds.
C22_LimitsHonoured ==
  fn_out.at = "returned"
    => /\ Len(fn_out.reviews) <= fn_in.max_reviews
       /\ fn_out.scroll.round <= fn_in.max_scrolls

\* C23: when the function has returned or raised after the persistent
\* context was launched, context.close() has been called.
C23_ContextClosedOnExit ==
  (fn_out.at \in {"returned", "raised"} /\ fn_out.context # "none")
    => fn_out.context = "closed"

(* --------------------------------- scrape_chunk's call of PlaceScraper *)
\* The parameters of scrape_google_maps_reviews.
Parameters == { "place_url", "max_reviews", "headless", "max_scrolls" }

\* The keyword arguments scrape_chunk calls it with.
Keywords == { "place_url", "max_reviews", "headless", "max_scrolls", "profile_dir" }

\* Python binds a call when every keyword names a parameter; otherwise the
\* call raises TypeError before the function body runs.
Binds(keywords) == keywords \subseteq Parameters

\* fn_in is the set of links whose place page can be scraped.
InitCall ==
  /\ NoProcess
  /\ fn_in \in SUBSET { links[k] : k \in 1..Len(links) }
  /\ fn_out = NotApplied

\* result = await scrape_google_maps_reviews(place_url=link, ...): the call
\* binds and the page can be scraped, or the except branch is taken.
ScrapeCall ==
  /\ pc = "scrape"
  /\ IF Binds(Keywords) /\ target_links[i] \in fn_in
     THEN \E result \in ScrapeResults(target_links[i]) : Scraped(result)
     ELSE ScrapeFail

NextCall ==
  \/ \E cs \in 1..MaxChunk : RunNothingToDo(cs, NoOverride)
  \/ \E cs \in 1..MaxChunk : Begin(cs, NoOverride)
  \/ ScrapeCall
  \/ SaveStateOpen
  \/ SaveStateWrite
  \/ Sleep
  \/ MergeAndOpenJson
  \/ WriteJson
  \/ OpenCsv
  \/ WriteCsv
  \/ FinalSaveOpen
  \/ FinalSaveWrite

SpecCall == InitCall /\ [][NextCall]_vars

\* C24: when scrape_chunk returns, the call has succeeded for every link of
\* the chunk whose place page can be scraped, and the chunk results hold one
\* record per such link and the chunk rows one row per review of it, in link
\* order.
C24_ScrapableLinksAreBuffered ==
  (pc = "merge") =>
    /\ \A k \in 1..Len(target_links) :
         target_links[k] \in fn_in => (k <= Len(outcomes) /\ outcomes[k].ok)
    /\ chunk_results = OkRecords(outcomes)
    /\ chunk_rows = OkRows(outcomes)

(* ------------------------------------------------ convert_links_to_short *)
MaxRaw == 3

RawLinks == { "r1", "r2" }
ShortLinks == { "s1", "s2" }

\* How a call of get_maps_app_short_link ends: it returns a short link, it
\* returns None (no Share button, no link in the dialog), or an exception
\* leaves it (goto or click timing out): its try has a finally and no except.
ShortLinkOutcomes ==
  { [kind |-> "short", link |-> l] : l \in ShortLinks }
    \cup { [kind |-> "none", link |-> ""], [kind |-> "raise", link |-> ""] }

RECURSIVE Unique(_, _)
\* The "unique + stable order" loop.
Unique(xs, seen) ==
  IF xs = << >> THEN << >>
  ELSE IF xs[1] \in seen THEN Unique(Tail(xs), seen)
       ELSE << xs[1] >> \o Unique(Tail(xs), seen \cup {xs[1]})

\* The function before its first link; obtained records how the call for
\* each link ended.
ConvertStart ==
  [at |-> "loop", idx |-> 1, clean_short_links |-> << >>, obtained |-> << >>,
   out |-> << >>, raised |-> "none"]

InitConvert ==
  /\ NoProcess
  /\ fn_in \in SeqsUpTo(RawLinks, MaxRaw)
  /\ fn_out = ConvertStart

\* One pass of the for loop: short_link = await get_maps_app_short_link(...).
ConvertOne ==
  /\ fn_out.at = "loop"
  /\ fn_out.idx <= Len(fn_in)
  /\ \E o \in ShortLinkOutcomes :
       fn_out' =
         IF o.kind = "raise"
         THEN [fn_out EXCEPT !.at = "raised", !.raised = "TimeoutError",
                             !.obtained = Append(@, o)]
         ELSE [fn_out EXCEPT !.idx = @ + 1,
                             !.obtained = Append(@, o),
                             !.clean_short_links =
                               Append(@, IF Truthy(o.link) THEN o.link ELSE fn_in[fn_out.idx])]
  /\ UNCHANGED << fn_in, process >>

\* After the loop: the links are made unique and returned.
ReturnUnique ==
  /\ fn_out.at = "loop"
  /\ fn_out.idx > Len(fn_in)
  /\ fn_out' = [fn_out EXCEPT !.at = "returned", !.out = Unique(fn_out.clean_short_links, {})]
  /\ UNCHANGED << fn_in, process >>

NextConvert == ConvertOne \/ ReturnUnique

SpecConvert == InitConvert /\ [][NextConvert]_vars

\* C26: when the function has ended, for every raw link of the input the
\* output holds the short link obtained for it, or the raw link when its
\* conversion failed; the output has no duplicates; and it is ordered by
\* first occurrence.
C26_NoLinkLost ==
  fn_out.at \in {"returned", "raised"} =>
    LET out == fn_out.out
        Kept(k) == IF k <= Len(fn_out.obtained) /\ fn_out.obtained[k].kind = "short"
                   THEN fn_out.obtained[k].link ELSE fn_in[k]
        At(x) == CHOOSE m \in 1..Len(fn_in) :
                   Kept(m) = x /\ \A l \in 1..(m - 1) : Kept(l) # x
    IN  /\ \A k \in 1..Len(fn_in) : \E j \in 1..Len(out) : out[j] = Kept(k)
        /\ \A j, k \in 1..Len(out) : out[j] = out[k] => j = k
        /\ \A j, k \in 1..Len(out) : j < k => At(out[j]) < At(out[k])

(* ------------------------------------- the store's records across a merge *)
\* C25: every record of the store loaded before the merge is in the merged
\* list that the run writes: merge_master_json(E, N) holds every record of E
\* (stated here for the records of E that have a place_url).
C25_NoExistingRecordRemoved ==
  (fn_out.done /\ fn_in.round = 1) =>
    \A j \in 1..Len(fn_in.existing) :
      Truthy(fn_in.existing[j].place_url)
        => \E k \in 1..Len(fn_out.v) : fn_out.v[k] = fn_in.existing[j]

====
